---- MODULE Spec2Model ----
(***************************************************************************)
(* Huffman file compressor (dsa-cep/main.py): the codec functions as       *)
(* operators, compress_file / decompress_file as actions on a file system. *)
(*                                                                         *)
(* Encodings: bytes are sequences of 0..255; a bit-string is a sequence of *)
(* the characters "0" and "1"; an Optional value is <<>> (None) or <<v>>;  *)
(* a call that raises is a result record with ok = FALSE and the exception *)
(* type in err.                                                            *)
(***************************************************************************)
EXTENDS Integers, Sequences, FiniteSets, TLC

VARIABLES
    files,      \* the file system: path -> None (no such file) or Some(bytes)
    hist,       \* the calls of compress_file / decompress_file made so far
    origin,     \* what the behaviour exercises: "files", "freq" or "blob"
    pc,         \* stage of the codec pipeline
    freq_in,    \* a frequency table, as build_freq_map returns it
    root_out,   \* build_tree(heap_from_freq(freq_in))
    codes_out,  \* make_codes(root_out)
    blob_out,   \* serialize(root_out), or the blob given to deserialize
    tree_out,   \* deserialize(blob_out.val)
    bitstr_in,  \* an encoded bit-string, as encode_bytes returns it
    padded_out, \* pad_bits(bitstr_in): <<padded bit-string, pad count>>
    bytes_out,  \* bits_to_bytes(padded_out[1])
    bitstr_out  \* the bit-string decompress_file gets back from bytes_out

vars == <<files, hist, origin, pc, freq_in, root_out, codes_out, blob_out, tree_out,
          bitstr_in, padded_out, bytes_out, bitstr_out>>

codec_vars == <<origin, pc, freq_in, root_out, codes_out, blob_out, tree_out>>

packer_vars == <<bitstr_in, padded_out, bytes_out, bitstr_out>>

---------------------------------------------------------------------------
(* Optional values and results *)

None == <<>>

Some(v) == <<v>>

Val(o) == o[1]

Ok(v) == [ok |-> TRUE, val |-> v, err |-> ""]

Raise(e) == [ok |-> FALSE, val |-> None, err |-> e]

MAGIC == <<72, 85, 70, 70>>

---------------------------------------------------------------------------
(* Node and the heap (heapq on Node.__lt__) *)

Node(sym, fr) == [sym |-> sym, freq |-> fr, left |-> None, right |-> None]

Lt(a, b) == a.freq < b.freq

RECURSIVE siftdown_loop(_, _, _, _)
siftdown_loop(heap, startpos, pos, newitem) ==
    IF pos > startpos
    THEN LET parentpos == (pos - 1) \div 2
             parent == heap[parentpos + 1]
         IN  IF Lt(newitem, parent)
             THEN siftdown_loop([heap EXCEPT ![pos + 1] = parent], startpos, parentpos, newitem)
             ELSE [heap EXCEPT ![pos + 1] = newitem]
    ELSE [heap EXCEPT ![pos + 1] = newitem]

siftdown(heap, startpos, pos) == siftdown_loop(heap, startpos, pos, heap[pos + 1])

RECURSIVE siftup_loop(_, _, _, _)
siftup_loop(heap, startpos, pos, newitem) ==
    LET endpos == Len(heap)
        childpos == 2 * pos + 1
    IN  IF childpos < endpos
        THEN LET rightpos == childpos + 1
                 c == IF rightpos < endpos /\ ~Lt(heap[childpos + 1], heap[rightpos + 1])
                      THEN rightpos ELSE childpos
             IN  siftup_loop([heap EXCEPT ![pos + 1] = heap[c + 1]], startpos, c, newitem)
        ELSE siftdown([heap EXCEPT ![pos + 1] = newitem], startpos, pos)

siftup(heap, pos) == siftup_loop(heap, pos, pos, heap[pos + 1])

heappush(heap, item) == siftdown(Append(heap, item), 0, Len(heap))

\* heappop of a non-empty heap: <<popped item, remaining heap>>
heappop(heap) ==
    LET lastelt == heap[Len(heap)]
        rest == SubSeq(heap, 1, Len(heap) - 1)
    IN  IF rest # <<>>
        THEN <<heap[1], siftup([rest EXCEPT ![1] = lastelt], 0)>>
        ELSE <<lastelt, rest>>

---------------------------------------------------------------------------
(* 1) frequency count: dict(Counter(data)), keys in first-occurrence order, *)
(*    as a sequence of <<sym, count>>                                       *)

Count(data, s) == Cardinality({i \in 1..Len(data) : data[i] = s})

RECURSIVE FirstSeen(_, _)
FirstSeen(data, i) ==
    IF i > Len(data) THEN <<>>
    ELSE IF \E j \in 1..(i - 1) : data[j] = data[i]
         THEN FirstSeen(data, i + 1)
         ELSE <<data[i]>> \o FirstSeen(data, i + 1)

build_freq_map(data) ==
    LET keys == FirstSeen(data, 1)
    IN  [k \in 1..Len(keys) |-> <<keys[k], Count(data, keys[k])>>]

---------------------------------------------------------------------------
(* 2) heap and tree *)

RECURSIVE heap_push_all(_, _, _)
heap_push_all(h, freq_map, k) ==
    IF k > Len(freq_map) THEN h
    ELSE heap_push_all(heappush(h, Node(Some(freq_map[k][1]), freq_map[k][2])), freq_map, k + 1)

heap_from_freq(freq_map) == heap_push_all(<<>>, freq_map, 1)

RECURSIVE build_tree_loop(_)
build_tree_loop(h) ==
    IF Len(h) > 1
    THEN LET pa == heappop(h)
             pb == heappop(pa[2])
             a == pa[1]
             b == pb[1]
             p == [Node(None, a.freq + b.freq) EXCEPT !.left = Some(a), !.right = Some(b)]
         IN  build_tree_loop(heappush(pb[2], p))
    ELSE Some(heappop(h)[1])

\* Optional[Node]
build_tree(h) ==
    IF h = <<>> THEN None
    ELSE IF Len(h) = 1
         THEN LET single == heappop(h)[1]
              IN  Some([Node(None, single.freq) EXCEPT !.left = Some(single)])
         ELSE build_tree_loop(h)

---------------------------------------------------------------------------
(* 3) code map: a function from the symbols met to their bit-strings; a    *)
(*    later assignment to the same key replaces the earlier one             *)

Assign(codes, later) == later @@ codes

\* mutant of walk: the right child inherits the prefix unextended
RECURSIVE walk_right_unextended(_, _)
walk_right_unextended(node, prefix) ==
    IF node.sym # None
    THEN (Val(node.sym) :> (IF prefix # <<>> THEN prefix ELSE <<"0">>))
    ELSE LET l == IF node.left # None
                  THEN walk_right_unextended(Val(node.left), Append(prefix, "0")) ELSE <<>>
             r == IF node.right # None
                  THEN walk_right_unextended(Val(node.right), prefix) ELSE <<>>
         IN  Assign(l, r)

RECURSIVE walk(_, _)
walk(node, prefix) ==
    IF node.sym # None
    THEN (Val(node.sym) :> (IF prefix # <<>> THEN prefix ELSE <<"0">>))
    ELSE LET l == IF node.left # None THEN walk(Val(node.left), Append(prefix, "0")) ELSE <<>>
             r == IF node.right # None THEN walk(Val(node.right), Append(prefix, "1")) ELSE <<>>
         IN  Assign(l, r)

make_codes(root) == IF root = None THEN <<>> ELSE walk(Val(root), <<>>)

---------------------------------------------------------------------------
(* 4) tree serialization (preorder): 0 = internal, 1 + byte = leaf *)

\* dfs of serialize on an Optional child: None has no attribute sym
RECURSIVE ser_dfs(_)
ser_dfs(onode) ==
    IF onode = None THEN Raise("AttributeError")
    ELSE LET node == Val(onode)
         IN  IF node.sym # None
             THEN Ok(<<1, Val(node.sym)>>)
             ELSE LET l == ser_dfs(node.left)
                  IN  IF ~l.ok THEN l
                      ELSE LET r == ser_dfs(node.right)
                           IN  IF ~r.ok THEN r
                               ELSE Ok(<<0>> \o l.val \o r.val)

serialize(root) == IF root = None THEN Ok(<<>>) ELSE ser_dfs(root)

\* dfs of deserialize: Ok(<<node, next index>>) or the ValueError; i is 0-based
RECURSIVE de_dfs(_, _)
de_dfs(blob, i) ==
    LET n == Len(blob)
    IN  IF i >= n THEN Raise("ValueError")
        ELSE LET flag == blob[i + 1]
                 i1 == i + 1
             IN  IF flag = 1
                 THEN IF i1 >= n THEN Raise("ValueError")
                      ELSE Ok(<<Node(Some(blob[i1 + 1]), 0), i1 + 1>>)
                 ELSE IF flag = 0
                      THEN LET l == de_dfs(blob, i1)
                           IN  IF ~l.ok THEN l
                               ELSE LET r == de_dfs(blob, l.val[2])
                                    IN  IF ~r.ok THEN r
                                        ELSE Ok(<<[Node(None, 0) EXCEPT
                                                     !.left = Some(l.val[1]),
                                                     !.right = Some(r.val[1])],
                                                  r.val[2]>>)
                      ELSE Raise("ValueError")

\* mutant of deserialize_extra: bytes after the tree are not looked at
deserialize_extra_ignored(d, n) == FALSE

deserialize_extra(d, n) == d.val[2] # n

\* Ok(Optional[Node]) or the ValueError
deserialize(blob) ==
    IF blob = <<>> THEN Ok(None)
    ELSE LET d == de_dfs(blob, 0)
         IN  IF ~d.ok THEN d
             ELSE IF deserialize_extra(d, Len(blob)) THEN Raise("ValueError")
                  ELSE Ok(Some(d.val[1]))

---------------------------------------------------------------------------
(* 5) encode bytes -> bit-string, padding, packing *)

RECURSIVE encode_bytes(_, _)
encode_bytes(data, codes) ==
    IF data = <<>> THEN <<>>
    ELSE codes[Head(data)] \o encode_bytes(Tail(data), codes)

Zeros(k) == [i \in 1..k |-> "0"]

\* mutant of pad_extra: a whole byte of padding on a full last byte
pad_extra_unreduced(len) == 8 - (len % 8)

pad_extra(len) == (8 - (len % 8)) % 8

\* <<padded bit-string, pad count>>
pad_bits(bits) ==
    IF Len(bits) = 0 THEN <<<<>>, 0>>
    ELSE LET extra == pad_extra(Len(bits))
         IN  <<bits \o Zeros(extra), extra>>

\* int(byte, 2)
RECURSIVE int2(_)
int2(byte) ==
    IF byte = <<>> THEN 0
    ELSE 2 * int2(SubSeq(byte, 1, Len(byte) - 1)) + (IF byte[Len(byte)] = "1" THEN 1 ELSE 0)

Min(a, b) == IF a < b THEN a ELSE b

RECURSIVE bits_to_bytes_from(_, _)
bits_to_bytes_from(bits, i) ==
    IF i >= Len(bits) THEN <<>>
    ELSE <<int2(SubSeq(bits, i + 1, Min(i + 8, Len(bits))))>> \o bits_to_bytes_from(bits, i + 8)

bits_to_bytes(bits) == bits_to_bytes_from(bits, 0)

\* f"{x:08b}"
format_08b(x) == [k \in 1..8 |-> IF (x \div (2 ^ (8 - k))) % 2 = 1 THEN "1" ELSE "0"]

RECURSIVE bytes_to_bits(_)
bytes_to_bits(bts) ==
    IF bts = <<>> THEN <<>>
    ELSE format_08b(Head(bts)) \o bytes_to_bits(Tail(bts))

\* struct.pack(">I", n) and struct.unpack(">I", b)[0]; the files of the model
\* declare lengths below 2^31, the largest integer TLC computes with
pack_I(n) == <<(n \div 16777216) % 256, (n \div 65536) % 256, (n \div 256) % 256, n % 256>>

unpack_I(b) == b[1] * 16777216 + b[2] * 65536 + b[3] * 256 + b[4]

---------------------------------------------------------------------------
(* paths: sequences of characters; the file system maps a path to None     *)
(* (no such file) or Some(bytes)                                           *)

UpperChars == <<"A","B","C","D","E","F","G","H","I","J","K","L","M","N","O","P","Q","R","S","T","U","V","W","X","Y","Z">>

LowerChars == <<"a","b","c","d","e","f","g","h","i","j","k","l","m","n","o","p","q","r","s","t","u","v","w","x","y","z">>

lower_char(c) ==
    IF \E i \in 1..Len(UpperChars) : UpperChars[i] = c
    THEN LowerChars[CHOOSE i \in 1..Len(UpperChars) : UpperChars[i] = c]
    ELSE c

lower(s) == [i \in 1..Len(s) |-> lower_char(s[i])]

IsSpace(c) == c \in {" ", "\t", "\n", "\r"}

RECURSIVE lstrip(_)
lstrip(s) == IF s # <<>> /\ IsSpace(Head(s)) THEN lstrip(Tail(s)) ELSE s

RECURSIVE rstrip(_)
rstrip(s) == IF s # <<>> /\ IsSpace(s[Len(s)]) THEN rstrip(SubSeq(s, 1, Len(s) - 1)) ELSE s

strip(s) == rstrip(lstrip(s))

endswith(s, suf) == Len(s) >= Len(suf) /\ SubSeq(s, Len(s) - Len(suf) + 1, Len(s)) = suf

startswith(s, pre) == Len(s) >= Len(pre) /\ SubSeq(s, 1, Len(pre)) = pre

huff_ext == <<".", "h", "u", "f", "f">>

already_compressed_exts ==
    { <<".", "z", "i", "p">>,
      <<".", "g", "z">>,
      <<".", "7", "z">>,
      <<".", "r", "a", "r">>,
      <<".", "j", "p", "e", "g">>,
      <<".", "j", "p", "g">>,
      <<".", "p", "n", "g">>,
      <<".", "g", "i", "f">>,
      <<".", "m", "p", "3">>,
      <<".", "m", "p", "4">>,
      <<".", "a", "v", "i">>,
      <<".", "m", "o", "v">>,
      <<".", "o", "d", "t">>,
      <<".", "d", "o", "c", "x">>,
      <<".", "x", "l", "s", "x">> }

\* read_file_bytes: Ok(bytes) or FileNotFoundError
read_file_bytes(fs, path) == IF fs[path] = None THEN Raise("FileNotFoundError") ELSE Ok(Val(fs[path]))

\* open(path, 'wb') ... write: the file holds exactly the bytes written
write_file(fs, path, data) == [fs EXCEPT ![path] = Some(data)]

\* shutil.copy(src, dst) between regular files: fs after the copy, or SameFileError
copy_file(fs, src, dst) ==
    IF src = dst THEN Raise("SameFileError")
    ELSE Ok(write_file(fs, dst, Val(fs[src])))

---------------------------------------------------------------------------
(* floats of the stats, as reduced fractions <<numerator, denominator>> *)

RECURSIVE Gcd(_, _)
Gcd(a, b) == IF b = 0 THEN a ELSE Gcd(b, a % b)

Float(n, d) == LET g == Gcd(n, d) IN <<n \div g, d \div g>>

---------------------------------------------------------------------------
(* 6) compressor.  A call's result: ok/err, the file system it leaves, the *)
(*    returned root and stats (None when it raises).                        *)

Returns(fs, root, stats) ==
    [ok |-> TRUE, err |-> "", files |-> fs, root |-> root, stats |-> Some(stats)]

Raises(fs, e) ==
    [ok |-> FALSE, err |-> e, files |-> fs, root |-> None, stats |-> None]

\* mutant of already_huff: the magic marker is not looked at
already_huff_by_name_only(raw, src_str) == endswith(src_str, huff_ext)

already_huff(raw, src_str) == startswith(raw, MAGIC) \/ endswith(src_str, huff_ext)

already_compressed_type(src_str) == \E ext \in already_compressed_exts : endswith(src_str, ext)

\* mutant of would_not_shrink: a container of the original size is kept
would_not_shrink_strict(compressed_bytes_total, original_bytes) ==
    compressed_bytes_total > original_bytes

would_not_shrink(compressed_bytes_total, original_bytes) ==
    compressed_bytes_total >= original_bytes

container(tree_blob, pad_count, compressed) ==
    MAGIC \o pack_I(Len(tree_blob)) \o tree_blob \o <<pad_count>> \o compressed

compress_normal(fs, src, dst, raw) ==
    LET original_bytes == Len(raw)
        freq == build_freq_map(raw)
        h == heap_from_freq(freq)
        root == build_tree(h)
        codes == make_codes(root)
        bitstr == IF root # None THEN encode_bytes(raw, codes) ELSE <<>>
        pb == pad_bits(bitstr)
        pad_count == pb[2]
        compressed == bits_to_bytes(pb[1])
        ser == serialize(root)
    IN  IF ~ser.ok THEN Raises(fs, ser.err)
        ELSE
        LET tree_blob == ser.val
            tree_len == Len(tree_blob)
            written == write_file(fs, dst, container(tree_blob, pad_count, compressed))
            compressed_bytes_total == 4 + 4 + tree_len + 1 + Len(compressed)
        IN  IF would_not_shrink(compressed_bytes_total, original_bytes)
            THEN LET cp == copy_file(written, src, dst)
                 IN  IF ~cp.ok THEN Raises(written, cp.err)
                     ELSE Returns(cp.val, None,
                            [original_bytes |-> original_bytes,
                             compressed_bytes |-> original_bytes,
                             unique_symbols |-> Len(freq),
                             pad_count |-> Some(pad_count),
                             compression_ratio |-> Some(Float(1, 1)),
                             space_saved_percent |-> Some(Float(0, 1)),
                             skipped |-> TRUE,
                             note |-> Some("The uploaded file appears to be already compressed; compression cannot reduce its size.")])
            ELSE Returns(written, root,
                   [original_bytes |-> original_bytes,
                    compressed_bytes |-> compressed_bytes_total,
                    unique_symbols |-> Len(freq),
                    pad_count |-> Some(pad_count),
                    compression_ratio |->
                        IF original_bytes > 0
                        THEN Some(Float(compressed_bytes_total, original_bytes))
                        ELSE None,
                    space_saved_percent |->
                        IF original_bytes > 0
                        THEN Some(Float((original_bytes - compressed_bytes_total) * 100, original_bytes))
                        ELSE None,
                    skipped |-> FALSE,
                    note |-> None])

compress_file(fs, src, dst) ==
    LET src_str == lower(strip(src))
        rd == read_file_bytes(fs, src)
    IN  IF ~rd.ok THEN Raises(fs, rd.err)
        ELSE
        LET raw == rd.val
            original_bytes == Len(raw)
        IN  IF already_huff(raw, src_str)
            THEN Returns(fs, None,
                   [original_bytes |-> original_bytes,
                    compressed_bytes |-> Len(raw),
                    unique_symbols |-> 0,
                    pad_count |-> None,
                    compression_ratio |-> None,
                    space_saved_percent |-> None,
                    skipped |-> TRUE,
                    note |-> Some("Input file is already in .huff format (double-compression prevented).")])
            ELSE IF already_compressed_type(src_str)
            THEN Returns(fs, None,
                   [original_bytes |-> original_bytes,
                    compressed_bytes |-> original_bytes,
                    unique_symbols |-> 0,
                    pad_count |-> None,
                    compression_ratio |-> Some(Float(1, 1)),
                    space_saved_percent |-> Some(Float(0, 1)),
                    skipped |-> TRUE,
                    note |-> Some("This file type is likely already compressed (skipped compression).")])
            ELSE compress_normal(fs, src, dst, raw)

---------------------------------------------------------------------------
(* 7) decompressor *)

\* raw[i], 0-based
byte_at(raw, i) == IF i < Len(raw) THEN Ok(raw[i + 1]) ELSE Raise("IndexError")

\* raw[a:b] and raw[a:]
slice(raw, a, b) == SubSeq(raw, a + 1, Min(b, Len(raw)))

too_small(raw) == Len(raw) < 9

magic_mismatch(raw) == slice(raw, 0, 4) # MAGIC

\* mutant of tree_len_unrealistic: the padding-count byte is not counted
tree_len_unrealistic_off_by_one(cursor, tree_len, raw) == cursor + tree_len > Len(raw)

tree_len_unrealistic(cursor, tree_len, raw) == cursor + tree_len + 1 > Len(raw)

\* the decode loop from bit i with the walk at node: Ok(decoded bytes) or the ValueError
RECURSIVE decode_loop(_, _, _, _, _)
decode_loop(root, node, bitstr, i, out) ==
    IF i >= Len(bitstr) THEN Ok(out)
    ELSE LET bit == bitstr[i + 1]
             nxt == IF bit = "0" THEN node.left ELSE node.right
         IN  IF nxt = None THEN Raise("ValueError")
             ELSE IF Val(nxt).sym # None
                  THEN decode_loop(root, root, bitstr, i + 1, Append(out, Val(Val(nxt).sym)))
                  ELSE decode_loop(root, Val(nxt), bitstr, i + 1, out)

\* bytes -> bit-string with the padding trimmed: Ok(bit-string) or the ValueError
unpad(comp_bytes, pad_count) ==
    LET bits == IF comp_bytes # <<>> THEN bytes_to_bits(comp_bytes) ELSE <<>>
    IN  IF pad_count > 0 /\ pad_count > Len(bits) THEN Raise("ValueError")
        ELSE Ok(IF pad_count > 0 THEN SubSeq(bits, 1, Len(bits) - pad_count) ELSE bits)

decompress_parsed(fs, dst, raw, tree_len) ==
    LET cursor == 8
        tree_blob == slice(raw, cursor, cursor + tree_len)
        pc_byte == byte_at(raw, cursor + tree_len)
    IN  IF ~pc_byte.ok THEN Raises(fs, pc_byte.err)
        ELSE
        LET pad_count == pc_byte.val
            comp_bytes == slice(raw, cursor + tree_len + 1, Len(raw))
            un == unpad(comp_bytes, pad_count)
        IN  IF ~un.ok THEN Raises(fs, un.err)
            ELSE
            LET bitstr == un.val
                de == IF tree_len > 0 THEN deserialize(tree_blob) ELSE Ok(None)
            IN  IF ~de.ok THEN Raises(fs, de.err)
                ELSE
                LET root == de.val
                    dec == IF root = None THEN Ok(<<>>)
                           ELSE decode_loop(Val(root), Val(root), bitstr, 0, <<>>)
                IN  IF ~dec.ok THEN Raises(fs, dec.err)
                    ELSE Returns(write_file(fs, dst, dec.val), None,
                           [compressed_size |-> Len(raw),
                            restored_size |-> Len(dec.val),
                            pad_count |-> pad_count])

decompress_file(fs, src, dst) ==
    LET rd == read_file_bytes(fs, src)
    IN  IF ~rd.ok THEN Raises(fs, rd.err)
        ELSE
        LET raw == rd.val
        IN  IF too_small(raw) THEN Raises(fs, "ValueError")
            ELSE IF magic_mismatch(raw) THEN Raises(fs, "ValueError")
            ELSE LET tree_len == unpack_I(slice(raw, 4, 8))
                 IN  IF tree_len_unrealistic(8, tree_len, raw) THEN Raises(fs, "ValueError")
                     ELSE decompress_parsed(fs, dst, raw, tree_len)

---------------------------------------------------------------------------
(* bounds and input sets *)

MaxCalls == 2

MaxLen == 2

MaxRun == 17

MaxSyms == 3

MaxFreq == 3

MaxBlob == 7

MaxTail == 2

MaxBits == 10

MaxPayload == 1

SeqsUpTo(S, n) == UNION {[1..k -> S] : k \in 0..n}

Rep(s, k) == [i \in 1..k |-> s]

P_tmp == <<"t", "m", "p">>

P_huff == <<"t", "m", "p", ".", "h", "u", "f", "f">>

P_jpg == <<"p", "i", "c", ".", "J", "P", "G">>

\* <<path of the uploaded file, the other path of the session>>
Sessions == {<<P_tmp, P_huff>>, <<P_jpg, P_huff>>}

DataBytes == {97, 98, 99}

RunBytes == {97, 98}

\* file contents: every short byte string, alone, followed by a long run of
\* one byte, or behind the magic marker
Inputs ==
    LET short == SeqsUpTo(DataBytes, MaxLen)
    IN  short
        \cup {p \o Rep(s, k) : p \in short, s \in RunBytes, k \in {MaxRun - 1, MaxRun}}
        \cup {MAGIC \o p : p \in short}

\* files that look like containers: a marker (right or with one byte flipped),
\* a declared tree length, a short tail; and every truncation of one
DeclaredLens == {0, 1, 2, 256}

TailBytes == {0, 1, 97}

ContainerLike ==
    LET whole == {m \o pack_I(l) \o t :
                    m \in {MAGIC, <<72, 85, 70, 71>>},
                    l \in DeclaredLens,
                    t \in SeqsUpTo(TailBytes, MaxTail)}
    IN  whole \cup {SubSeq(MAGIC \o pack_I(2) \o <<1, 97, 0>>, 1, k) : k \in 0..10}

\* containers with a sound header and a sound tree (one, two or three leaves)
\* in front of any padding count and payload
TreeBlobs ==
    {<<1, 97>>,
     <<0, 1, 97, 1, 98>>,
     <<0, 1, 97, 0, 1, 98, 1, 99>>,
     <<0, 0, 1, 97, 1, 98, 1, 99>>}

PadCounts == {0, 1, 6, 7, 8, 9}

PayloadBytes == {0, 128, 255}

StreamContainers ==
    {container(t, p, c) :
        t \in TreeBlobs, p \in PadCounts, c \in SeqsUpTo(PayloadBytes, MaxPayload)}

Symbols == {0, 1, 97, 255}

\* frequency tables: distinct symbols in any order, positive counts
FreqTables ==
    {f \in SeqsUpTo(Symbols \X (1..MaxFreq), MaxSyms) :
        \A i, j \in 1..Len(f) : i # j => f[i][1] # f[j][1]}

BlobBytes == {0, 1, 2}

Blobs == SeqsUpTo(BlobBytes, MaxBlob)

---------------------------------------------------------------------------
(* the file-level state machine *)

PackerIdle ==
    /\ bitstr_in = <<>>
    /\ padded_out = <<<<>>, 0>>
    /\ bytes_out = <<>>
    /\ bitstr_out = Ok(<<>>)

CodecIdle ==
    /\ origin = "files"
    /\ pc = "idle"
    /\ freq_in = <<>>
    /\ root_out = None
    /\ codes_out = <<>>
    /\ blob_out = Ok(<<>>)
    /\ tree_out = Ok(None)
    /\ PackerIdle

InitSession(contents) ==
    /\ \E sess \in Sessions, B \in contents :
         files = [p \in {sess[1], sess[2]} |-> IF p = sess[1] THEN Some(B) ELSE None]
    /\ hist = <<>>
    /\ CodecIdle

Init == InitSession(Inputs)

InitCorrupt == InitSession(ContainerLike)

InitStream == InitSession(StreamContainers)

Call(op, src, dst, r) ==
    [op |-> op, src |-> src, dst |-> dst, before |-> files, after |-> r.files,
     ok |-> r.ok, err |-> r.err, root |-> r.root, stats |-> r.stats]

Compress ==
    \E src \in DOMAIN files, dst \in DOMAIN files :
        /\ Len(hist) < MaxCalls
        /\ LET r == compress_file(files, src, dst)
           IN  /\ files' = r.files
               /\ hist' = Append(hist, Call("compress", src, dst, r))
        /\ UNCHANGED <<codec_vars, packer_vars>>

Decompress ==
    \E src \in DOMAIN files, dst \in DOMAIN files :
        /\ Len(hist) < MaxCalls
        /\ LET r == decompress_file(files, src, dst)
           IN  /\ files' = r.files
               /\ hist' = Append(hist, Call("decompress", src, dst, r))
        /\ UNCHANGED <<codec_vars, packer_vars>>

Next == Compress \/ Decompress

Spec == Init /\ [][Next]_vars

SpecCorrupt == InitCorrupt /\ [][Next]_vars

SpecStream == InitStream /\ [][Next]_vars

---------------------------------------------------------------------------
(* the codec pipeline on a frequency table, and deserialize on any blob *)

InitCodec ==
    /\ PackerIdle
    /\ files = <<>>
    /\ hist = <<>>
    /\ root_out = None
    /\ codes_out = <<>>
    /\ tree_out = Ok(None)
    /\ \/ /\ origin = "freq"
          /\ pc = "freq"
          /\ freq_in \in FreqTables
          /\ blob_out = Ok(<<>>)
       \/ /\ origin = "blob"
          /\ pc = "blob"
          /\ freq_in = <<>>
          /\ blob_out \in {Ok(b) : b \in Blobs}

BuildTree ==
    /\ pc = "freq"
    /\ root_out' = build_tree(heap_from_freq(freq_in))
    /\ pc' = "tree"
    /\ UNCHANGED <<files, hist, origin, freq_in, codes_out, blob_out, tree_out, packer_vars>>

MakeCodes ==
    /\ pc = "tree"
    /\ codes_out' = make_codes(root_out)
    /\ pc' = "codes"
    /\ UNCHANGED <<files, hist, origin, freq_in, root_out, blob_out, tree_out, packer_vars>>

Serialize ==
    /\ pc = "codes"
    /\ blob_out' = serialize(root_out)
    /\ pc' = "blob"
    /\ UNCHANGED <<files, hist, origin, freq_in, root_out, codes_out, tree_out, packer_vars>>

Deserialize ==
    /\ pc = "blob"
    /\ blob_out.ok
    /\ tree_out' = deserialize(blob_out.val)
    /\ pc' = "parsed"
    /\ UNCHANGED <<files, hist, origin, freq_in, root_out, codes_out, blob_out, packer_vars>>

NextCodec == BuildTree \/ MakeCodes \/ Serialize \/ Deserialize

SpecCodec == InitCodec /\ [][NextCodec]_vars

---------------------------------------------------------------------------
(* the bit packer on a bit-string: pad, pack, and unpack as decompress_file does *)

BitStrings == SeqsUpTo({"0", "1"}, MaxBits)

InitPacker ==
    /\ files = <<>>
    /\ hist = <<>>
    /\ origin = "bits"
    /\ pc = "bits"
    /\ freq_in = <<>>
    /\ root_out = None
    /\ codes_out = <<>>
    /\ blob_out = Ok(<<>>)
    /\ tree_out = Ok(None)
    /\ bitstr_in \in BitStrings
    /\ padded_out = <<<<>>, 0>>
    /\ bytes_out = <<>>
    /\ bitstr_out = Ok(<<>>)

PadBits ==
    /\ pc = "bits"
    /\ padded_out' = pad_bits(bitstr_in)
    /\ pc' = "padded"
    /\ UNCHANGED <<files, hist, origin, freq_in, root_out, codes_out, blob_out, tree_out,
                   bitstr_in, bytes_out, bitstr_out>>

BitsToBytes ==
    /\ pc = "padded"
    /\ bytes_out' = bits_to_bytes(padded_out[1])
    /\ pc' = "packed"
    /\ UNCHANGED <<files, hist, origin, freq_in, root_out, codes_out, blob_out, tree_out,
                   bitstr_in, padded_out, bitstr_out>>

Unpad ==
    /\ pc = "packed"
    /\ bitstr_out' = unpad(bytes_out, padded_out[2])
    /\ pc' = "unpacked"
    /\ UNCHANGED <<files, hist, origin, freq_in, root_out, codes_out, blob_out, tree_out,
                   bitstr_in, padded_out, bytes_out>>

NextPacker == PadBits \/ BitsToBytes \/ Unpad

SpecPacker == InitPacker /\ [][NextPacker]_vars

---------------------------------------------------------------------------
(* vocabulary of the properties *)

Calls(op) == {i \in 1..Len(hist) : hist[i].op = op}

\* the bytes the call read from its source, when the source existed
HasSource(c) == c.before[c.src] # None

Source(c) == Val(c.before[c.src])

HasSkipName(path) ==
    LET src_str == lower(strip(path))
    IN  endswith(src_str, huff_ext) \/ already_compressed_type(src_str)

\* the call got past both skip tests of compress_file
NormalPath(c) ==
    /\ c.op = "compress"
    /\ HasSource(c)
    /\ ~startswith(Source(c), MAGIC)
    /\ ~HasSkipName(c.src)

\* the container compress_file assembles for the bytes B
ContainerOf(B) ==
    LET root == build_tree(heap_from_freq(build_freq_map(B)))
        bitstr == IF root # None THEN encode_bytes(B, make_codes(root)) ELSE <<>>
        pb == pad_bits(bitstr)
    IN  container(serialize(root).val, pb[2], bits_to_bytes(pb[1]))

IsLeaf(n) == n.sym # None /\ n.left = None /\ n.right = None

IsInternal(n) == n.sym = None /\ n.left # None /\ n.right # None

RECURSIVE WellFormed(_)
WellFormed(n) ==
    \/ IsLeaf(n)
    \/ IsInternal(n) /\ WellFormed(Val(n.left)) /\ WellFormed(Val(n.right))

\* the tree with its weights dropped
RECURSIVE Shape(_)
Shape(on) ==
    IF on = None THEN None
    ELSE Some([sym |-> Val(on).sym, freq |-> 0,
               left |-> Shape(Val(on).left), right |-> Shape(Val(on).right)])

\* preorder encoding of a well-formed tree
RECURSIVE Preorder(_)
Preorder(n) ==
    IF IsLeaf(n) THEN <<1, Val(n.sym)>>
    ELSE <<0>> \o Preorder(Val(n.left)) \o Preorder(Val(n.right))

IsPrefix(a, b) == Len(a) <= Len(b) /\ SubSeq(b, 1, Len(a)) = a

FreqSyms == {freq_in[k][1] : k \in 1..Len(freq_in)}

---------------------------------------------------------------------------
(* properties *)

\* C1: round trip - whenever compress_file is run on a non-empty source that
\* has no skip extension and does not start with the magic marker, and
\* decompress_file is then run on its destination, both calls succeed and the
\* restored file equals the source byte for byte.
C1_RoundTrip ==
    \A i \in Calls("compress"), j \in Calls("decompress") :
        (/\ j = i + 1
         /\ NormalPath(hist[i])
         /\ Source(hist[i]) # <<>>
         /\ hist[j].src = hist[i].dst)
        => /\ hist[i].ok
           /\ hist[j].ok
           /\ hist[j].after[hist[j].dst] = Some(Source(hist[i]))

\* C2: single distinct byte - compressing N >= 1 repetitions of one byte s
\* completes without error, the tree is one leaf for s under one synthetic
\* internal root, s gets the code "0", and a following decompress_file of the
\* destination restores the same N bytes.
C2_SingleByte ==
    \A i \in Calls("compress") :
        LET c == hist[i]
            B == Source(c)
            root == build_tree(heap_from_freq(build_freq_map(B)))
        IN  (/\ NormalPath(c)
             /\ B # <<>>
             /\ \A k \in 1..Len(B) : B[k] = B[1])
            => /\ c.ok
               /\ Val(root).sym = None
               /\ Val(root).left = Some(Node(Some(B[1]), Len(B)))
               /\ make_codes(root) = (B[1] :> <<"0">>)
               /\ \A j \in Calls("decompress") :
                    (j = i + 1 /\ hist[j].src = c.dst)
                    => hist[j].ok /\ hist[j].after[hist[j].dst] = Some(B)

\* C3: empty input - after compress_file on a zero-byte source the destination
\* holds the 9-byte container (marker, tree length 0, no tree blob, padding
\* count 0, no payload), and decompress_file of that destination succeeds and
\* writes zero bytes.
C3_EmptyInput ==
    \A i \in Calls("compress") :
        LET c == hist[i]
        IN  (NormalPath(c) /\ Source(c) = <<>>)
            => /\ c.after[c.dst] = Some(MAGIC \o <<0, 0, 0, 0>> \o <<0>>)
               /\ \A j \in Calls("decompress") :
                    (j = i + 1 /\ hist[j].src = c.dst)
                    => hist[j].ok /\ hist[j].after[hist[j].dst] = Some(<<>>)

\* C4: idempotent skip - whenever the source bytes begin with the magic marker,
\* compress_file returns root None with skipped = True, encodes nothing (no
\* symbols counted, no padding count) and leaves every file, the destination
\* included, as it was.
C4_MagicSkip ==
    \A i \in Calls("compress") :
        LET c == hist[i]
        IN  (HasSource(c) /\ startswith(Source(c), MAGIC))
            => /\ c.ok
               /\ c.root = None
               /\ Val(c.stats).skipped
               /\ Val(c.stats).unique_symbols = 0
               /\ Val(c.stats).pad_count = None
               /\ c.after = c.before

\* C4 witness: a container written by one compress_file call is the source of
\* the next, whose destination is another file that already exists.
C4_Witness ==
    \E i \in Calls("compress"), j \in Calls("compress") :
        /\ j = i + 1
        /\ hist[i].ok
        /\ ~Val(hist[i].stats).skipped
        /\ hist[j].src = hist[i].dst
        /\ hist[j].dst # hist[j].src
        /\ hist[j].before[hist[j].dst] # None
        /\ startswith(Source(hist[j]), MAGIC)
        /\ hist[j].ok

\* the big-endian tree length a file of at least 8 bytes declares
DeclaredLen(raw) == ((raw[5] * 256 + raw[6]) * 256 + raw[7]) * 256 + raw[8]

CorruptHeader(raw) ==
    \/ Len(raw) < 9
    \/ SubSeq(raw, 1, 4) # MAGIC
    \/ 8 + DeclaredLen(raw) + 1 > Len(raw)

\* C5: corrupt container - decompress_file of a file shorter than 9 bytes, or
\* not starting with the magic marker, or declaring a tree length L with
\* 8 + L + 1 > file length, fails with ValueError and writes nothing; no call
\* reads the padding-count byte outside the file (IndexError).
C5_CorruptHeader ==
    \A j \in Calls("decompress") :
        LET d == hist[j]
        IN  /\ d.err # "IndexError"
            /\ (HasSource(d) /\ CorruptHeader(Source(d)))
               => /\ ~d.ok
                  /\ d.err = "ValueError"
                  /\ d.after = d.before

\* C5 witness: a file of 9 bytes or more with the right marker whose declared
\* tree length runs past its end was given to decompress_file.
C5_Witness ==
    \E j \in Calls("decompress") :
        /\ HasSource(hist[j])
        /\ Len(Source(hist[j])) >= 9
        /\ SubSeq(Source(hist[j]), 1, 4) = MAGIC
        /\ 8 + DeclaredLen(Source(hist[j])) + 1 > Len(Source(hist[j]))
        /\ ~hist[j].ok

\* C6: prefix-free codes - for a frequency table with at least one symbol the
\* code table has exactly one non-empty code per symbol of the table, and no
\* code is a prefix of (or equal to) the code of another symbol.
C6_PrefixFree ==
    (origin = "freq" /\ pc \in {"codes", "blob", "parsed"} /\ Len(freq_in) >= 1)
    => /\ DOMAIN codes_out = FreqSyms
       /\ \A s \in FreqSyms : codes_out[s] # <<>>
       /\ \A s, t \in FreqSyms : s # t => ~IsPrefix(codes_out[s], codes_out[t])

\* C6 witness: codes were made for a table of three symbols, of two lengths.
C6_Witness ==
    /\ origin = "freq"
    /\ pc = "codes"
    /\ Len(freq_in) = 3
    /\ \E s, t \in FreqSyms : Len(codes_out[s]) < Len(codes_out[t])

C8_TreeShape ==
    /\ (origin = "freq" /\ pc # "freq" /\ Len(freq_in) >= 1)
       => WellFormed(Val(root_out))
    /\ (pc = "parsed" /\ tree_out.ok /\ tree_out.val # None)
       => WellFormed(Val(tree_out.val))

\* C9: the tree codec is invertible - serialize completes on every tree
\* build_tree returns, and deserialize of the blob gives back the same tree,
\* weights aside; the null root maps to the empty blob and back.
C9_CodecInverse ==
    origin = "freq"
    => /\ pc \in {"blob", "parsed"}
          => blob_out.ok /\ (root_out = None <=> blob_out.val = <<>>)
       /\ pc = "parsed"
          => tree_out.ok /\ tree_out.val = Shape(root_out)

\* C10: deserialize rejects malformed blobs - the empty blob gives the null
\* root; for a non-empty blob deserialize returns a tree only when the blob is
\* exactly the preorder encoding of that one complete tree, and raises
\* ValueError otherwise.
C10_RejectsMalformed ==
    pc = "parsed"
    => /\ blob_out.val = <<>> => tree_out = Ok(None)
       /\ (blob_out.val # <<>> /\ tree_out.ok)
          => /\ tree_out.val # None
             /\ WellFormed(Val(tree_out.val))
             /\ Preorder(Val(tree_out.val)) = blob_out.val
       /\ ~tree_out.ok => tree_out.err = "ValueError"

\* C10 witness: a blob that is one complete tree followed by more bytes was
\* rejected.
C10_Witness ==
    /\ pc = "parsed"
    /\ origin = "blob"
    /\ ~tree_out.ok
    /\ \E k \in 1..(Len(blob_out.val) - 1) :
         LET d == de_dfs(blob_out.val, 0)
         IN  d.ok /\ d.val[2] = k

\* bit i (1-based, most significant bit of each byte first) of a byte string
BitOf(bts, i) == (bts[((i - 1) \div 8) + 1] \div (2 ^ (7 - ((i - 1) % 8)))) % 2

\* C11: padding arithmetic - for a bit-string of length L pad_bits returns the
\* count p = (8 - L mod 8) mod 8, so 0 <= p <= 7, p = 0 when L = 0 and L + p is
\* a multiple of 8; the padded string is the bit-string followed by p zeros;
\* bits_to_bytes gives (L + p) / 8 bytes holding those bits most significant
\* bit first; expanding the bytes and removing the last p bits gives the
\* bit-string back.
C11_Padding ==
    LET L == Len(bitstr_in)
        padded == padded_out[1]
        p == padded_out[2]
    IN  /\ (origin = "bits" /\ pc \in {"padded", "packed", "unpacked"})
           => /\ p = (8 - (L % 8)) % 8
              /\ p \in 0..7
              /\ L = 0 => p = 0
              /\ (L + p) % 8 = 0
              /\ Len(padded) = L + p
              /\ \A i \in 1..L : padded[i] = bitstr_in[i]
              /\ \A i \in (L + 1)..(L + p) : padded[i] = "0"
        /\ (origin = "bits" /\ pc \in {"packed", "unpacked"})
           => /\ Len(bytes_out) * 8 = L + p
              /\ \A k \in 1..Len(bytes_out) : bytes_out[k] \in 0..255
              /\ \A i \in 1..(L + p) : (padded[i] = "1") <=> (BitOf(bytes_out, i) = 1)
        /\ (origin = "bits" /\ pc = "unpacked")
           => bitstr_out = Ok(bitstr_in)

\* C11 witness: a bit-string of more than one byte, not a whole number of
\* bytes and with a 1 in its last byte, went through pad, pack and unpack.
C11_Witness ==
    /\ origin = "bits"
    /\ pc = "unpacked"
    /\ Len(bitstr_in) > 8
    /\ padded_out[2] > 0
    /\ bitstr_in[Len(bitstr_in)] = "1"
    /\ Len(bytes_out) = 2

\* the fields of a file whose header is sound
TreeBlobOf(raw) == SubSeq(raw, 9, 8 + DeclaredLen(raw))

PadCountOf(raw) == raw[9 + DeclaredLen(raw)]

PayloadOf(raw) == SubSeq(raw, 10 + DeclaredLen(raw), Len(raw))

\* the first n bits of a byte string, most significant bit of each byte first
FirstBits(bts, n) == [i \in 1..n |-> IF BitOf(bts, i) = 1 THEN "1" ELSE "0"]

SoundTree(raw) ==
    /\ ~CorruptHeader(raw)
    /\ DeclaredLen(raw) > 0
    /\ deserialize(TreeBlobOf(raw)).ok

\* C12: corrupt bit streams are not accepted - for a container with a sound
\* header and a sound non-empty tree blob, decompress_file returns only if the
\* padding count is at most the number of payload bits and the payload bits
\* before the padding are exactly the codes of the bytes it wrote, one after
\* the other; otherwise it fails with ValueError and writes nothing.
C12_CorruptStream ==
    \A j \in Calls("decompress") :
        LET d == hist[j]
            raw == Source(d)
            nbits == 8 * Len(PayloadOf(raw))
            codes == make_codes(deserialize(TreeBlobOf(raw)).val)
        IN  (HasSource(d) /\ SoundTree(raw))
            => /\ d.ok
                  => /\ PadCountOf(raw) <= nbits
                     /\ encode_bytes(Val(d.after[d.dst]), codes)
                        = FirstBits(PayloadOf(raw), nbits - PadCountOf(raw))
               /\ ~d.ok => d.err = "ValueError" /\ d.after = d.before

====
